---------------------------- MODULE Spec2Model ----------------------------
(***************************************************************************)
(* Incremental download and merge of SMARD / TTF time series               *)
(* (cgroll/world-of-energy, src/pipeline/0*_download_*.py and               *)
(* src/woe/smard/api.py), and the checkpointed ERA5 downloads               *)
(* (src/pipeline/11_*.py, 19_*.py).                                         *)
(*                                                                         *)
(* Time is a count of minutes since 2015-01-01T00:00 (naive local time,    *)
(* the value of DEFAULT_START_DATE).  A data frame is a sequence of rows   *)
(* <<timestamp, value>>; a persisted parquet file is absent, unreadable or *)
(* holds a frame whose timestamps are the index or a 'timestamp' column.   *)
(***************************************************************************)
EXTENDS Integers, Sequences, FiniteSets, TLC

(***************************************************************************)
(* Bounds of the model.                                                    *)
(***************************************************************************)
\* Number of distinct timestamps of a series' grid.
MaxT == 2
\* Longest raw response (rows before sort / de-duplication) of the API.
MaxRows == 2
\* Number of hourly slots the upstream publishes observations for.
MaxSlots == 4
\* Number of slots one block of the SMARD API covers.
BlockLen == 2

\* Observation values are opaque; two of them tell a revision from the
\* value it replaces.  Null is the JSON null of an unpublished slot.
Values == {"a", "b"}
Null == "null"

(***************************************************************************)
(* datetime / timedelta arithmetic (Python's proleptic Gregorian calendar) *)
(***************************************************************************)
IsLeap(y) == (y % 4 = 0 /\ y % 100 # 0) \/ y % 400 = 0

DaysInMonth(y, m) ==
    CASE m \in {1, 3, 5, 7, 8, 10, 12} -> 31
      [] m \in {4, 6, 9, 11} -> 30
      [] OTHER -> IF IsLeap(y) THEN 29 ELSE 28

DaysInYear(y) == IF IsLeap(y) THEN 366 ELSE 365

RECURSIVE DaysBeforeYear(_)
DaysBeforeYear(y) ==
    IF y <= 2015 THEN 0 ELSE DaysInYear(y - 1) + DaysBeforeYear(y - 1)

RECURSIVE DaysBeforeMonth(_, _)
DaysBeforeMonth(y, m) ==
    IF m <= 1 THEN 0 ELSE DaysInMonth(y, m - 1) + DaysBeforeMonth(y, m - 1)

\* timedelta(hours=n), timedelta(days=n), timedelta(minutes=n)
Hours(n) == n * 60
Days(n) == Hours(24 * n)

\* datetime(y, mo, d, h, mi) as minutes since 2015-01-01T00:00.
Minutes(y, mo, d, h, mi) ==
    Days(DaysBeforeYear(y) + DaysBeforeMonth(y, mo) + (d - 1)) + Hours(h) + mi

RECURSIVE YearOfDay(_, _)
YearOfDay(dayno, y) ==
    IF dayno < DaysInYear(y) THEN [year |-> y, rest |-> dayno]
    ELSE YearOfDay(dayno - DaysInYear(y), y + 1)

RECURSIVE MonthOfDay(_, _, _)
MonthOfDay(dayno, y, m) ==
    IF dayno < DaysInMonth(y, m) THEN [month |-> m, rest |-> dayno]
    ELSE MonthOfDay(dayno - DaysInMonth(y, m), y, m + 1)

\* The fields of a datetime.
ToDate(t) ==
    LET yr == YearOfDay(t \div Days(1), 2015)
        mo == MonthOfDay(yr.rest, yr.year, 1)
    IN  [year |-> yr.year, month |-> mo.month, day |-> mo.rest + 1,
         hour |-> (t % Days(1)) \div Hours(1),
         minute |-> t % Hours(1)]

\* dt.replace(day=1, hour=0, minute=0, second=0, microsecond=0)
ReplaceDayOne(t) == Minutes(ToDate(t).year, ToDate(t).month, 1, 0, 0)

\* Timestamp.strftime("%Y-%m-%d") read back as a date: midnight of the day.
StrftimeDate(t) == Days(t \div Days(1))

\* DEFAULT_START_DATE = datetime(2015, 1, 1)
DEFAULT_START_DATE == Minutes(2015, 1, 1, 0, 0)

\* Python's None where a datetime is expected.
None == -1

(***************************************************************************)
(* Data frames                                                             *)
(***************************************************************************)
Ts(row) == row[1]
Val(row) == row[2]

Index(rows) == [i \in 1..Len(rows) |-> Ts(rows[i])]

\* Index.is_monotonic_increasing (non-strict)
IsMonotonicIncreasing(rows) ==
    \A i \in 1..Len(rows) - 1 : Ts(rows[i]) <= Ts(rows[i + 1])

StrictlyIncreasing(rows) ==
    \A i \in 1..Len(rows) - 1 : Ts(rows[i]) < Ts(rows[i + 1])

MaxTs(rows) ==
    CHOOSE t \in {Ts(rows[i]) : i \in 1..Len(rows)} :
        \A i \in 1..Len(rows) : Ts(rows[i]) <= t

\* Every ordering of the rows at positions S by ascending timestamp.  The
\* sort is numpy's quicksort, which is not stable: rows with equal
\* timestamps may come out in any order.
RECURSIVE Arrangements(_, _)
Arrangements(rows, S) ==
    IF S = {} THEN {<<>>}
    ELSE LET least == {i \in S : \A j \in S : Ts(rows[i]) <= Ts(rows[j])}
         IN  UNION {{<<rows[i]>> \o rest : rest \in Arrangements(rows, S \ {i})}
                    : i \in least}

\* df.sort_values('timestamp'): always argsorts.
sort_values(rows) == Arrangements(rows, 1..Len(rows))

\* df.sort_index(): returns the frame as it is when the index is already
\* monotonic, and argsorts with quicksort otherwise.
sort_index(rows) ==
    IF IsMonotonicIncreasing(rows) THEN {rows}
    ELSE Arrangements(rows, 1..Len(rows))

\* df.drop_duplicates(subset='timestamp'): keeps the first row of each
\* timestamp.
Second(pairs) == [i \in 1..Len(pairs) |-> pairs[i][2]]

drop_duplicates(rows) ==
    Second(SelectSeq([i \in 1..Len(rows) |-> <<i, rows[i]>>],
              LAMBDA p : \A j \in 1..(p[1] - 1) : Ts(rows[j]) # Ts(p[2])))

\* The merge without its de-duplication.
duplicated_dropped_none(rows) == rows

\* df[~df.index.duplicated(keep="last")]: keeps the last row of each
\* timestamp.
duplicated_keep_last(rows) ==
    Second(SelectSeq([i \in 1..Len(rows) |-> <<i, rows[i]>>],
              LAMBDA p : \A j \in (p[1] + 1)..Len(rows) : Ts(rows[j]) # Ts(p[2])))

\* df.dropna()
dropna(rows) == SelectSeq(rows, LAMBDA r : Val(r) # Null)

(***************************************************************************)
(* Persisted files and the fetch client's results                          *)
(***************************************************************************)
Absent == [state |-> "absent", layout |-> "index", rows |-> <<>>]
Corrupt == [state |-> "corrupt", layout |-> "index", rows |-> <<>>]

\* combined_df.to_parquet(output_file): the frame, time-indexed.
to_parquet(rows) == [state |-> "ok", layout |-> "index", rows |-> rows]

\* existing_df = None.  warned: "Warning: Could not read existing file" was
\* printed on the way.
NoFrame == [present |-> FALSE, layout |-> "index", rows |-> <<>>, warned |-> FALSE]

\* get_existing_data with pd.read_parquet outside its try: no warning, and
\* whatever the read makes of the file taken for the baseline.
get_existing_data_unguarded(f) ==
    [present |-> f.state # "absent", layout |-> f.layout, rows |-> f.rows,
     warned |-> FALSE]

\* get_existing_data(file_path): the frame of a readable file; None when the
\* file does not exist, and None with a printed warning when pd.read_parquet
\* raises.
get_existing_data(f) ==
    IF f.state = "ok"
    THEN [present |-> TRUE, layout |-> f.layout, rows |-> f.rows, warned |-> FALSE]
    ELSE IF f.state = "absent" THEN NoFrame
    ELSE [NoFrame EXCEPT !.warned = TRUE]

\* get_last_timestamp without its "timestamp" column branch.
get_last_timestamp_index_only(df) ==
    IF ~df.present \/ df.rows = <<>> THEN None
    ELSE IF df.layout = "index" THEN MaxTs(df.rows)
    ELSE None

\* get_last_timestamp with the last entry of the "timestamp" column for its
\* maximum.
get_last_timestamp_last_of_column(df) ==
    IF ~df.present \/ df.rows = <<>> THEN None
    ELSE IF df.layout = "index" THEN MaxTs(df.rows)
    ELSE Ts(df.rows[Len(df.rows)])

\* get_last_timestamp(df)
get_last_timestamp(df) ==
    IF ~df.present \/ df.rows = <<>> THEN None
    ELSE IF df.layout = "index" THEN MaxTs(df.rows)
    ELSE IF df.layout = "column" THEN MaxTs(df.rows)
    ELSE None

\* Resolution enum values the drivers pass.
Resolutions == {"hour", "quarterhour", "day", "month"}

\* get_start_time without its "if last_timestamp is None" branch.
get_start_time_without_default(last_timestamp, resolution) ==
    IF resolution = "month"
    THEN ReplaceDayOne(last_timestamp + Days(32))
    ELSE last_timestamp + Hours(1)

\* get_start_time(last_timestamp, resolution) of
\* 01_download_smard_price_analysis_data.py, and the same computation inline
\* in 01_download_smard_DE_prices.py, 03_download_residual_load.py and
\* 07_download_baseload_and_capacities.py.
get_start_time(last_timestamp, resolution) ==
    IF last_timestamp = None THEN DEFAULT_START_DATE
    ELSE IF resolution = "month"
         THEN ReplaceDayOne(last_timestamp + Days(32))
         ELSE last_timestamp + Hours(1)

\* get_start_time(last_timestamp) of 06_download_smard_forecasts.py
get_start_time_forecasts(last_timestamp) ==
    IF last_timestamp = None THEN DEFAULT_START_DATE
    ELSE last_timestamp + Hours(1)

\* The download drivers: the hourly SMARD variables (prices, residual load,
\* baseload), a monthly SMARD variable, the quarter-hourly forecasts, and
\* the daily TTF gas price.
Drivers == {"hourly", "monthly", "forecasts", "ttf"}
SmardDrivers == Drivers \ {"ttf"}

\* The resolution each driver declares for its variables.
ResolutionOf(cfg) ==
    CASE cfg = "hourly" -> "hour"
      [] cfg = "monthly" -> "month"
      [] cfg = "forecasts" -> "quarterhour"
      [] cfg = "ttf" -> "day"

\* The update without its cursor: every fetch starts at the origin date.
StartTime_from_origin(cfg, last_timestamp) == DEFAULT_START_DATE

StartTime(cfg, last_timestamp) ==
    IF cfg = "forecasts" THEN get_start_time_forecasts(last_timestamp)
    ELSE get_start_time(last_timestamp, ResolutionOf(cfg))

\* The k-th timestamp of a series of the driver's resolution.
GridAt(cfg, k) ==
    CASE cfg = "hourly" -> Minutes(2024, 1, 1, 5, 0) + Hours(k)
      [] cfg = "forecasts" -> Minutes(2024, 1, 1, 5, 0) + 15 * k
      [] cfg = "ttf" -> Minutes(2024, 1, 1, 0, 0) + Days(k)
      [] cfg = "monthly" ->
            Minutes(2024 + (10 + k) \div 12, ((10 + k) % 12) + 1, 1, 0, 0)

Grid(cfg) == {GridAt(cfg, k) : k \in 0..(MaxT - 1)}

\* A wall clock later than every timestamp of the grids.
Far == Minutes(2026, 11, 3, 12, 0)

\* The wall-clock readings of a run.
Clock(cfg) == {GridAt(cfg, k) : k \in 1..MaxT} \cup {Far}

SeqsUpTo(S, n) == UNION {[1..k -> S] : k \in 0..n}

\* The rows download_smard_data has collected from the block responses
\* (all_timestamps, all_values) before it builds the frame.
Raws(cfg) == SeqsUpTo(Grid(cfg) \X (Values \cup {Null}), MaxRows)

\* download_smard_data, from the collected rows to the returned frame:
\* sort_values('timestamp').drop_duplicates(subset='timestamp'),
\* set_index('timestamp'), dropna().
MakeFrame(raw) == {dropna(drop_duplicates(s)) : s \in sort_values(raw)}

\* Every frame the fetch client can return for a driver.
FramesOf == [cfg \in Drivers |-> UNION {MakeFrame(raw) : raw \in Raws(cfg)}]

Frame(rows) == [kind |-> "frame", rows |-> rows]
Signal(k) == [kind |-> k, rows |-> <<>>]
\* The fetch client was not called.
NoCall == Signal("NoCall")
\* RuntimeError("No data available after {start_time}")
NoDataAfter == Signal("NoDataAfter")
\* RuntimeError("Error fetching timestamps: ...") and
\* RuntimeError("No timestamps available for the specified parameters")
FetchRuntimeError == Signal("RuntimeError")
\* An exception of requests.get (ConnectionError, Timeout, ...), or of the
\* yfinance client for TTF.
RequestException == Signal("RequestException")

Failures == {FetchRuntimeError, RequestException}

\* What a call of the fetch client can produce.
Responses(cfg) ==
    {Frame(r) : r \in FramesOf[cfg]} \cup Failures
        \cup (IF cfg = "ttf" THEN {} ELSE {NoDataAfter})

(***************************************************************************)
(* The SMARD API and download_smard_data                                   *)
(***************************************************************************)
\* The API's timestamps are epoch counts in a finer unit than the frames'
\* datetimes (milliseconds in the API; seconds since 2015-01-01 here, which
\* fit the checker's integers).  int(start_time.timestamp() * 1000) and
\* datetime.fromtimestamp(ts / 1000).
ToWire(t) == t * 60
FromWire(w) == w \div 60

\* The datetime of the k-th hourly slot, k = 0, 1, ...
SlotTime(k) == GridAt("hourly", k)

\* The datetime of the k-th slot of an upstream series, on the grid of its
\* resolution.
UpSlotTime(up, k) == GridAt(up.grid, k)

\* index_<resolution>.json: the start timestamps of the blocks the API
\* lists.  The upstream has published the observations of the first
\* Len(published) slots and lists the first `blocks` blocks of BlockLen
\* slots each.
IndexJson(up) == [j \in 1..up.blocks |-> ToWire(UpSlotTime(up, (j - 1) * BlockLen))]

\* <variable>_<region>_<resolution>_<timestamp>.json: the "series" of the block
\* that starts at the wire timestamp w, one [timestamp, value] pair per
\* slot of the block, the value null where nothing is published yet.
BlockJson(up, w) ==
    LET first == CHOOSE k \in 0..(up.blocks * BlockLen) : ToWire(UpSlotTime(up, k)) = w
    IN  [i \in 1..BlockLen |->
            <<ToWire(UpSlotTime(up, first + i - 1)),
              IF first + i <= Len(up.published)
              THEN up.published[first + i] ELSE Null>>]

\* The HTTP layer: the outcome of the index request and the blocks whose
\* request does not return status 200.
HttpOk == [index |-> "200", bad |-> {}]

\* Step 2 of download_smard_data: the rows collected from the blocks, a
\* block whose status is not 200 skipped with a warning.
RECURSIVE CollectBlocks(_, _, _)
CollectBlocks(up, timestamps, http) ==
    IF timestamps = <<>> THEN <<>>
    ELSE (IF Head(timestamps) \in http.bad THEN <<>>
          ELSE LET series == BlockJson(up, Head(timestamps))
               IN  [i \in 1..Len(series) |->
                      <<FromWire(series[i][1]), series[i][2]>>])
         \o CollectBlocks(up, Tail(timestamps), http)

\* download_smard_data without "Filter timestamps if start_time is
\* provided": every block the index lists is requested.
download_smard_data_unfiltered(up, start, http) ==
    IF http.index = "exception" THEN {RequestException}
    ELSE IF http.index # "200" THEN {FetchRuntimeError}
    ELSE IF IndexJson(up) = <<>> THEN {FetchRuntimeError}
    ELSE {Frame(f) : f \in MakeFrame(CollectBlocks(up, IndexJson(up), http))}

\* download_smard_data(region, resolution, variable, variable_name,
\* start_time): the results it can return or raise.
download_smard_data(up, start, http) ==
    IF http.index = "exception" THEN {RequestException}
    ELSE IF http.index # "200" THEN {FetchRuntimeError}
    ELSE IF IndexJson(up) = <<>> THEN {FetchRuntimeError}
    ELSE LET start_timestamp == ToWire(start)
             timestamps == SelectSeq(IndexJson(up),
                                     LAMBDA ts : ts >= start_timestamp)
         IN  IF timestamps = <<>> THEN {NoDataAfter}
             ELSE {Frame(f) : f \in MakeFrame(CollectBlocks(up, timestamps, http))}

(***************************************************************************)
(* The update of one variable                                              *)
(***************************************************************************)
\* The baseline loaded although force_full is set.
LoadBaseline_ignoring_force(f, force) == get_existing_data(f)

\* existing_df = None if force_full else get_existing_data(output_file)
LoadBaseline(f, force) == IF force THEN NoFrame ELSE get_existing_data(f)

\* The merge that persists the new frame alone.
Combine_new_frame_only(existing_df, new_rows) == {new_rows}

\* "Combine with existing data if applicable": concat, sort_index, drop the
\* duplicated index entries keeping the last; the new frame alone when
\* there is no baseline.  The set of results the sort allows.
Combine(existing_df, new_rows) ==
    IF existing_df.present /\ existing_df.rows # <<>>
    THEN {duplicated_keep_last(s) : s \in sort_index(existing_df.rows \o new_rows)}
    ELSE {new_rows}

\* The update without its "if new_df.empty: return".
NothingNew_without_empty_check(resp) == resp = NoDataAfter

\* The fetch result ends the update without a write: the "No data available
\* after" RuntimeError, or new_df.empty.
NothingNew(resp) ==
    resp = NoDataAfter \/ (resp.kind = "frame" /\ resp.rows = <<>>)

\* The update with "except RuntimeError: pass" for its except clause.
FetchFailed_swallowed(resp) == FALSE

\* The update without the "No data available after" test of its except
\* clause: every RuntimeError is raised again.
FetchFailed_any_RuntimeError(resp) == resp \in Failures \/ resp = NoDataAfter

\* The call of the fetch client ends in an exception the update does not
\* handle: a RuntimeError other than "No data available after" (raised
\* again), or an exception that is no RuntimeError.
FetchFailed(resp) == resp \in Failures

Outcome(f, start, resp, w, r) ==
    [file |-> f, start_time |-> start, fetched |-> resp, wrote |-> w, raised |-> r]

\* download_single_variable(config, force_full) /
\* download_variable(variable, output_file, force_full) /
\* download_de_lu_prices(force_full): the outcomes of one update of the
\* file f at wall-clock time clock, when the fetch client answers resp.
download_single_variable(f, cfg, force, resp, clock) ==
    LET existing_df == LoadBaseline(f, force)
        start == StartTime(cfg, get_last_timestamp(existing_df))
    IN  IF start >= clock THEN {Outcome(f, start, NoCall, FALSE, FALSE)}
        ELSE IF FetchFailed(resp) THEN {Outcome(f, start, resp, FALSE, TRUE)}
        ELSE IF NothingNew(resp) THEN {Outcome(f, start, resp, FALSE, FALSE)}
        ELSE {Outcome(to_parquet(c), start, resp, TRUE, FALSE)
                : c \in Combine(existing_df, resp.rows)}

\* download_ttf_prices, "Determine start date for download": the day after
\* the last date, or None (period="max") without a baseline.
ttf_start_date(existing_df) ==
    IF existing_df.present /\ existing_df.rows # <<>>
    THEN StrftimeDate(MaxTs(existing_df.rows) + Days(1))
    ELSE None

\* download_ttf_prices(force_full): the fetch is always made.
download_ttf_prices(f, force, resp) ==
    LET existing_df == LoadBaseline(f, force)
        start == ttf_start_date(existing_df)
    IN  IF resp \in Failures THEN {Outcome(f, start, resp, FALSE, TRUE)}
        ELSE IF resp.rows = <<>> THEN {Outcome(f, start, resp, FALSE, FALSE)}
        ELSE {Outcome(to_parquet(c), start, resp, TRUE, FALSE)
                : c \in Combine(existing_df, resp.rows)}

(***************************************************************************)
(* State                                                                   *)
(***************************************************************************)
VARIABLES
    driver,      \* the driver the dataset location belongs to
    file,        \* the persisted dataset at the output location
    before,      \* the persisted dataset as the last update found it
    now,         \* datetime.now() of the run
    op,          \* the last step taken: "init", "update" or "tick"
    force_full,  \* --force of the last update
    start_time,  \* the resumption point the last update computed
    fetched,     \* what the fetch client returned to the last update
    wrote,       \* the last update called to_parquet
    raised,      \* the last update ended in an exception
    upstream,    \* what the SMARD API publishes for the variable
    outputs,     \* the persisted datasets of a driver's declared variables
    pc,          \* where a driver run stands
    idx,         \* the position of the driver's loop in its variable list
    attempted,   \* the variables the run has called the update for
    failed,      \* the variables whose update raised
    disk,        \* the checkpoint and output files of the ERA5 download
    script,      \* where the ERA5 download script stands
    http_log,    \* the answers of the HTTP layer to the runs made, in order
    procs        \* the runs that update the dataset location concurrently

varsUpdate == <<driver, file, before, now, op, force_full, start_time, fetched,
                wrote, raised>>
varsDriver == <<outputs, pc, idx, attempted, failed>>
varsEra5 == <<disk, script>>
varsRuns == <<http_log, procs>>
vars == <<varsUpdate, upstream, varsDriver, varsEra5, varsRuns>>

\* The state of the parts a specification does not exercise.
NoUpstream == [published |-> <<>>, blocks |-> 0, grid |-> "hourly"]
NoOutputs == <<>>
\* No ERA5 download is made.
NoEra5 == disk = <<>> /\ script = <<>>
\* No run over the HTTP layer is recorded and no runs overlap.
NoRuns == http_log = <<>> /\ procs = <<>>
NoRun ==
    /\ outputs = NoOutputs
    /\ pc = "none"
    /\ idx = 0
    /\ attempted = {}
    /\ failed = {}

\* The datasets a run can find at the output location.
Baselines(cfg) ==
    {Absent, Corrupt}
        \cup {[state |-> "ok", layout |-> l, rows |-> r]
                : l \in (IF cfg = "ttf" THEN {"index"} ELSE {"index", "column"}),
                  r \in FramesOf[cfg]}

Idle ==
    /\ op = "init"
    /\ force_full = FALSE
    /\ start_time = None
    /\ fetched = NoCall
    /\ wrote = FALSE
    /\ raised = FALSE

Init ==
    /\ driver \in Drivers
    /\ file \in Baselines(driver)
    /\ before = file
    /\ now \in Clock(driver)
    /\ Idle
    /\ upstream = NoUpstream
    /\ NoRun
    /\ NoEra5
    /\ NoRuns

Record(r, force) ==
    /\ file' = r.file
    /\ before' = file
    /\ start_time' = r.start_time
    /\ fetched' = r.fetched
    /\ wrote' = r.wrote
    /\ raised' = r.raised
    /\ force_full' = force
    /\ op' = "update"

\* One run of a SMARD driver's update of the variable.
UpdateSmard ==
    /\ driver \in SmardDrivers
    /\ op # "update"
    /\ \E force \in BOOLEAN, resp \in Responses(driver) :
         \E r \in download_single_variable(file, driver, force, resp, now) :
            Record(r, force)
    /\ UNCHANGED <<driver, now, upstream, varsDriver, varsEra5, varsRuns>>

\* One run of the TTF driver.
UpdateTTF ==
    /\ driver = "ttf"
    /\ op # "update"
    /\ \E force \in BOOLEAN, resp \in Responses(driver) :
         \E r \in download_ttf_prices(file, force, resp) :
            Record(r, force)
    /\ UNCHANGED <<driver, now, upstream, varsDriver, varsEra5, varsRuns>>

\* The run's process has ended; the next run starts at the same or a later
\* wall-clock time.
Tick ==
    /\ \E t \in Clock(driver) : t >= now /\ now' = t
    /\ op' = "tick"
    /\ force_full' = FALSE
    /\ start_time' = None
    /\ fetched' = NoCall
    /\ wrote' = FALSE
    /\ raised' = FALSE
    /\ before' = file
    /\ UNCHANGED <<driver, file, upstream, varsDriver, varsEra5, varsRuns>>

Next == UpdateSmard \/ UpdateTTF \/ Tick

Spec == Init /\ [][Next]_vars

(***************************************************************************)
(* The resumption point as a function of the baseline (SpecResume)         *)
(***************************************************************************)
\* Calendar days the baselines' last timestamps are drawn from: the first,
\* a middle and the last days of every month of a leap and a common year.
ResumeDates ==
    {d \in {2024, 2025} \X (1..12) \X {1, 15, 28, 29, 30, 31} :
        d[3] <= DaysInMonth(d[1], d[2])}

\* The times of day a series of the driver's resolution has records at.
TimesOfDay(cfg) ==
    CASE cfg = "hourly" -> {Hours(0), Hours(5), Hours(23)}
      [] cfg = "monthly" -> {Hours(0), Hours(5), Hours(23)}
      [] cfg = "forecasts" -> {Hours(5), Hours(5) + 15, Hours(23) + 45}
      [] cfg = "ttf" -> {Hours(0)}

ResumeTimes(cfg) ==
    {Minutes(d[1], d[2], d[3], 0, 0) + tod : d \in ResumeDates, tod \in TimesOfDay(cfg)}

\* Baselines whose maximum timestamp is m: m alone, m after an earlier
\* record, and, with the timestamps in a column, m before it.
ResumeBaselines(cfg, m) ==
    {[state |-> "ok", layout |-> "index", rows |-> r]
        : r \in {<<<<m, "a">>>>, <<<<m - Days(40), "a">>, <<m, "b">>>>}}
    \cup (IF cfg = "ttf" THEN {}
          ELSE {[state |-> "ok", layout |-> "column", rows |-> r]
                  : r \in {<<<<m, "a">>>>, <<<<m, "b">>, <<m - Days(40), "a">>>>}})

InitResume ==
    /\ driver \in Drivers
    /\ \E m \in ResumeTimes(driver) : file \in ResumeBaselines(driver, m)
    /\ before = file
    /\ now = Far
    /\ Idle
    /\ upstream = NoUpstream
    /\ NoRun
    /\ NoEra5
    /\ NoRuns

\* A SMARD driver determines the start of its next fetch.
ResumeSmard ==
    /\ driver \in SmardDrivers
    /\ op = "init"
    /\ op' = "resume"
    /\ start_time' = StartTime(driver, get_last_timestamp(LoadBaseline(file, FALSE)))
    /\ UNCHANGED <<driver, file, before, now, force_full, fetched, wrote, raised,
                   upstream, varsDriver, varsEra5, varsRuns>>

\* The TTF driver determines the start of its next fetch.
ResumeTTF ==
    /\ driver = "ttf"
    /\ op = "init"
    /\ op' = "resume"
    /\ start_time' = ttf_start_date(LoadBaseline(file, FALSE))
    /\ UNCHANGED <<driver, file, before, now, force_full, fetched, wrote, raised,
                   upstream, varsDriver, varsEra5, varsRuns>>

NextResume == ResumeSmard \/ ResumeTTF

SpecResume == InitResume /\ [][NextResume]_vars

(***************************************************************************)
(* Incremental runs against an upstream that only appends (SpecIncr)       *)
(***************************************************************************)
InitIncr ==
    /\ driver = "hourly"
    /\ file = Absent
    /\ before = Absent
    /\ now = Far
    /\ Idle
    /\ \E v \in Values :
          upstream = [published |-> <<v>>, blocks |-> 1, grid |-> "hourly"]
    /\ NoRun
    /\ NoEra5
    /\ NoRuns

BetweenRuns(name) ==
    /\ op' = name
    /\ force_full' = FALSE
    /\ start_time' = None
    /\ fetched' = NoCall
    /\ wrote' = FALSE
    /\ raised' = FALSE
    /\ before' = file
    /\ UNCHANGED <<driver, file, now, varsDriver, varsEra5, varsRuns>>

BlocksNeeded(n) == (n + BlockLen - 1) \div BlockLen

\* The upstream publishes the observation of the next slot, in the block
\* the slot belongs to.
Publish ==
    /\ Len(upstream.published) < MaxSlots
    /\ \E v \in Values :
         upstream' =
            [published |-> Append(upstream.published, v),
             blocks |-> IF upstream.blocks < BlocksNeeded(Len(upstream.published) + 1)
                        THEN BlocksNeeded(Len(upstream.published) + 1)
                        ELSE upstream.blocks,
             grid |-> upstream.grid]
    /\ BetweenRuns("publish")

\* The upstream lists the next block before any of its slots has a value.
OpenBlock ==
    /\ upstream.blocks = BlocksNeeded(Len(upstream.published))
    /\ upstream.blocks * BlockLen < MaxSlots
    /\ upstream' = [upstream EXCEPT !.blocks = @ + 1]
    /\ BetweenRuns("open")

\* A non-force run of the hourly driver's update, every request answered.
IncrementalRun ==
    /\ LET start == StartTime(driver, get_last_timestamp(LoadBaseline(file, FALSE)))
       IN  \E resp \in download_smard_data(upstream, start, HttpOk) :
             \E r \in download_single_variable(file, driver, FALSE, resp, now) :
                Record(r, FALSE)
    /\ UNCHANGED <<driver, now, upstream, varsDriver, varsEra5, varsRuns>>

NextIncr == Publish \/ OpenBlock \/ IncrementalRun

SpecIncr == InitIncr /\ [][NextIncr]_vars

(***************************************************************************)
(* A driver's run over its declared variables (SpecDriver)                 *)
(***************************************************************************)
\* RESIDUAL_LOAD_VARIABLES: SOLAR, WIND_ONSHORE, WIND_OFFSHORE, TOTAL_LOAD
NumVars == 4

\* The driver with one output file for all its variables.
variable_files_shared ==
    <<"solar.parquet", "solar.parquet", "solar.parquet", "solar.parquet">>

\* variable_files: the output location of each declared variable, by the
\* file names of ProjPaths.
variable_files ==
    <<"solar.parquet", "wind_onshore.parquet", "wind_offshore.parquet",
      "total_load.parquet">>

\* The dataset locations the driver's variables are persisted at.
Locations == {variable_files[i] : i \in 1..NumVars}

\* The datasets a driver run can find at a variable's output location.
DriverBaselines == {Absent, to_parquet(<<<<GridAt("hourly", 0), "a">>>>)}

\* What the fetch client answers a driver run's call.
DriverResponses ==
    {resp \in Responses("hourly") : Len(resp.rows) <= 1}

InitDriver ==
    /\ driver = "hourly"
    /\ file = Absent
    /\ before = Absent
    /\ now \in {GridAt("hourly", 1), Far}
    /\ op = "init"
    /\ force_full \in BOOLEAN
    /\ start_time = None
    /\ fetched = NoCall
    /\ wrote = FALSE
    /\ raised = FALSE
    /\ upstream = NoUpstream
    /\ outputs \in [Locations -> DriverBaselines]
    /\ pc = "running"
    /\ idx = 1
    /\ attempted = {}
    /\ failed = {}
    /\ NoEra5
    /\ NoRuns

\* download_residual_load_data(force_full), one pass of
\* "for variable in RESIDUAL_LOAD_VARIABLES: download_variable(...)": the
\* update of the next variable.  An exception download_variable raises
\* leaves the loop, the function and main().
DownloadNextVariable ==
    /\ pc = "running"
    /\ \E resp \in DriverResponses :
         \E r \in download_single_variable(outputs[variable_files[idx]], driver,
                                            force_full, resp, now) :
            /\ outputs' = [outputs EXCEPT ![variable_files[idx]] = r.file]
            /\ attempted' = attempted \cup {idx}
            /\ start_time' = r.start_time
            /\ fetched' = r.fetched
            /\ wrote' = r.wrote
            /\ raised' = r.raised
            /\ IF r.raised
               THEN /\ failed' = failed \cup {idx}
                    /\ pc' = "raised"
                    /\ idx' = idx
               ELSE /\ failed' = failed
                    /\ pc' = IF idx = NumVars THEN "done" ELSE "running"
                    /\ idx' = IF idx = NumVars THEN idx ELSE idx + 1
    /\ op' = "update"
    /\ UNCHANGED <<driver, file, before, now, force_full, upstream, varsEra5, varsRuns>>

NextDriver == DownloadNextVariable

SpecDriver == InitDriver /\ [][NextDriver]_vars

(***************************************************************************)
(* Properties of one variable's update (specification Spec)                *)
(***************************************************************************)
NonEmpty(f) == f.state = "ok" /\ f.rows # <<>>

TimestampsOf(rows) == {Ts(rows[i]) : i \in 1..Len(rows)}
RowsOf(rows) == {rows[i] : i \in 1..Len(rows)}

\* The fetch brought no new data: an empty frame, or the "No data available
\* after" signal.
ReturnedNoNewData(resp) ==
    resp = NoDataAfter \/ resp = Frame(<<>>)

\* C1: a non-force update whose fetch returns no new data (an empty frame or
\* the "No data available after" signal) leaves the persisted dataset
\* exactly as it found it, whether absent, unreadable, empty or non-empty,
\* and performs no write.
EmptyFetchLeavesDataset ==
    (op = "update" /\ ~force_full /\ ReturnedNoNewData(fetched))
        => (file = before /\ ~wrote /\ ~raised)

\* C1 happens: an update of a non-empty dataset got an empty frame.
EmptyFetchOnNonEmptyDataset ==
    /\ op = "update" /\ ~force_full
    /\ fetched = Frame(<<>>)
    /\ NonEmpty(before)
    /\ driver \in {"hourly", "monthly"}

\* C2: after any update that writes the dataset, the persisted series has
\* strictly increasing timestamps (hence no duplicates), whatever the
\* dataset held before and whatever the fetch returned.
WrittenSeriesStrictlyIncreasing ==
    (op = "update" /\ wrote) => StrictlyIncreasing(file.rows)

\* C2 happens: a written merge whose fetch repeated a persisted timestamp.
WroteMergeOfOverlappingFetch ==
    /\ op = "update" /\ wrote /\ ~force_full
    /\ NonEmpty(before)
    /\ TimestampsOf(before.rows) \cap TimestampsOf(fetched.rows) # {}
    /\ Len(file.rows) = MaxT

\* C3: whenever the baseline holds (t, v_old) and the fetch returns
\* (t, v_new), the persisted dataset holds exactly one record at t and its
\* value is v_new.
NewestWinsOnConflict ==
    (op = "update" /\ wrote /\ ~force_full /\ before.state = "ok")
        => \A i \in 1..Len(before.rows), j \in 1..Len(fetched.rows) :
              Ts(before.rows[i]) = Ts(fetched.rows[j])
                 => /\ fetched.rows[j] \in RowsOf(file.rows)
                    /\ Cardinality({k \in 1..Len(file.rows) :
                          Ts(file.rows[k]) = Ts(fetched.rows[j])}) = 1

\* C8: if the resumption point an update computed is at or after the wall
\* clock of the run, the update ends successfully without calling the fetch
\* client and leaves the persisted dataset unchanged, in every driver.
ShortCircuitMakesNoFetch ==
    (op = "update" /\ start_time # None /\ start_time >= now)
        => (fetched = NoCall /\ ~raised /\ ~wrote /\ file = before)

\* The fetch of a forced update starts at the fixed origin date (the TTF
\* driver has none and asks for the maximum period).
FetchedFromOrigin ==
    IF driver = "ttf" THEN start_time = None
    ELSE start_time = DEFAULT_START_DATE

\* C9 as claimed: a forced update of a non-empty dataset fetches from the
\* origin date and leaves a dataset that holds exactly the records of that
\* fetch; no record of the baseline that the fetch did not return survives.
ForceFullLeavesOnlyFetched ==
    (op = "update" /\ force_full /\ NonEmpty(before))
        => (FetchedFromOrigin /\ file.rows = fetched.rows)

\* C9 as amended: a forced update of a non-empty dataset fetches from the
\* origin date; if that fetch returns at least one record, the persisted
\* dataset afterwards holds exactly the records of the fetch, and if it
\* returns none (an empty frame, the no-data signal or a failure) the
\* dataset is left as it was.
ForceFullReplacesWhenFetchHasData ==
    (op = "update" /\ force_full /\ NonEmpty(before))
        => /\ FetchedFromOrigin
           /\ IF fetched.kind = "frame" /\ fetched.rows # <<>>
              THEN wrote /\ file = to_parquet(fetched.rows)
              ELSE ~wrote /\ file = before

\* C9 happens: a forced update dropped a record of the baseline.
ForceFullDroppedBaselineRecord ==
    /\ op = "update" /\ force_full /\ wrote
    /\ NonEmpty(before)
    /\ \E r \in RowsOf(before.rows) : Ts(r) \notin TimestampsOf(file.rows)

(***************************************************************************)
(* Properties of the resumption point (specification SpecResume)           *)
(***************************************************************************)
\* 00:00 on the first day of the calendar month after the month of t.
FirstOfNextMonth(t) ==
    LET d == ToDate(t)
    IN  IF d.month = 12 THEN Minutes(d.year + 1, 1, 1, 0, 0)
        ELSE Minutes(d.year, d.month + 1, 1, 0, 0)

\* C5: for monthly resolution and every non-empty baseline, whatever the
\* day of month and time of day of its maximum timestamp, the resumption
\* point is 00:00 on the first day of the month after that timestamp's
\* month.
MonthlyResumesAtNextMonth ==
    (op = "resume" /\ driver = "monthly")
        => start_time = FirstOfNextMonth(MaxTs(file.rows))

\* C6: for hourly resolution and every non-empty baseline with maximum
\* timestamp m, the resumption point is m + 1 hour, with the timestamps as
\* the index and with the timestamps in a 'timestamp' column.
HourlyResumesOneHourLater ==
    (op = "resume" /\ driver = "hourly")
        => start_time = MaxTs(file.rows) + 60

\* C6 happens: 2024-01-01T05:00 in a 'timestamp' column gives
\* 2024-01-01T06:00.
HourlyResumeFromColumn ==
    /\ op = "resume" /\ driver = "hourly"
    /\ file.layout = "column"
    /\ Len(file.rows) = 2
    /\ MaxTs(file.rows) = Minutes(2024, 1, 1, 5, 0)
    /\ start_time = Minutes(2024, 1, 1, 6, 0)

\* C7: for every resolution a driver declares and every non-empty baseline
\* with maximum timestamp m on the resolution's grid, the next fetch starts
\* at m advanced by one step of the resolution: m + 1 hour, m + 15 minutes
\* (forecasts), m + 1 day (TTF), the first of the next month (monthly).
ResumesOneResolutionStepLater ==
    op = "resume"
        => LET m == MaxTs(file.rows)
           IN  CASE ResolutionOf(driver) = "hour" -> start_time = m + 60
                 [] ResolutionOf(driver) = "quarterhour" -> start_time = m + 15
                 [] ResolutionOf(driver) = "day" -> start_time = m + 24 * 60
                 [] ResolutionOf(driver) = "month" ->
                       (ToDate(m).day = 1 /\ m % (24 * 60) = 0)
                           => start_time = FirstOfNextMonth(m)

(***************************************************************************)
(* Properties of incremental runs (specification SpecIncr)                 *)
(***************************************************************************)
\* The observations the upstream has published.
Published(up) ==
    {<<UpSlotTime(up, k - 1), up.published[k]>> : k \in 1..Len(up.published)}

\* C4: with an upstream that only appends, after any sequence of non-force
\* incremental runs whose fetches succeed, no upstream observation between
\* the origin and the persisted maximum timestamp is missing from the
\* persisted series and none is duplicated (as in a single full download).
IncrementalRunsLeaveNoGap ==
    (op = "update" /\ NonEmpty(file))
        => /\ \A o \in Published(upstream) :
                 Ts(o) <= MaxTs(file.rows) => o \in RowsOf(file.rows)
           /\ StrictlyIncreasing(file.rows)

(***************************************************************************)
(* Properties of a driver run (specification SpecDriver)                   *)
(***************************************************************************)
RunEnded == pc \in {"done", "raised"}

\* C10: a fetch failure of one variable does not halt the run: when the run
\* has ended, the update of every variable declared after a failed one has
\* been made.
FailureDoesNotHaltSiblings ==
    RunEnded => \A i \in failed : \A j \in (i + 1)..NumVars : j \in attempted

(***************************************************************************)
(* The capacity bundle: several variables merged into one file (SpecBundle) *)
(***************************************************************************)
\* Number of constituent variables of the bundle of the model.
MaxCaps == 3

Caps == 1..MaxCaps

\* The ascending sequence of a set of timestamps.
RECURSIVE SortedSeq(_)
SortedSeq(S) ==
    IF S = {} THEN <<>>
    ELSE LET least == CHOOSE t \in S : \A u \in S : t <= u
         IN  <<least>> \o SortedSeq(S \ {least})

\* series[t] of a constituent's series, NaN where it has no record at t.
ValueAt(rows, t) ==
    IF \E i \in 1..Len(rows) : Ts(rows[i]) = t
    THEN Val(rows[CHOOSE i \in 1..Len(rows) : Ts(rows[i]) = t])
    ELSE Null

\* pd.DataFrame(all_data).dropna(): only the rows that have a value for
\* every constituent.
BundleFrame_complete_rows(all_data) ==
    LET times == SortedSeq(UNION {{Ts(all_data[v][i]) : i \in 1..Len(all_data[v])}
                                    : v \in DOMAIN all_data})
    IN  SelectSeq([k \in 1..Len(times) |->
                     <<times[k],
                       [v \in Caps |-> IF v \in DOMAIN all_data
                                       THEN ValueAt(all_data[v], times[k]) ELSE Null]>>],
                  LAMBDA r : \A v \in Caps : Val(r)[v] # Null)

\* pd.DataFrame(all_data): one column per fetched constituent over the union
\* of their timestamps; a constituent not in all_data has no column, which
\* reads as NaN once the frame is concatenated with the existing bundle.
BundleFrame(all_data) ==
    LET times == SortedSeq(UNION {{Ts(all_data[v][i]) : i \in 1..Len(all_data[v])}
                                    : v \in DOMAIN all_data})
    IN  [k \in 1..Len(times) |->
            <<times[k],
              [v \in Caps |-> IF v \in DOMAIN all_data
                              THEN ValueAt(all_data[v], times[k]) ELSE Null]>>]

\* The answers of the fetch client to the calls for the constituents.
CapResponses ==
    {Frame(<<>>), Frame(<<<<GridAt("monthly", 1), "b">>>>),
     NoDataAfter, FetchRuntimeError, RequestException}

\* The constituents whose call of download_smard_data is reached: those up
\* to the first whose call raises something other than RuntimeError.
Called(resps) ==
    {v \in Caps : \A u \in 1..(v - 1) : resps[u] # RequestException}

\* download_capacities(paths, force_full): the outcome of one update of the
\* bundle file f at wall-clock time clock, the fetch client answering
\* resps[v] to the call for constituent v.
download_capacities(f, force, resps, clock) ==
    LET existing_df == LoadBaseline(f, force)
        start == get_start_time(get_last_timestamp(existing_df), "month")
        called == Called(resps)
        errors == {v \in called : resps[v] \in Failures}
        uncaught == \E v \in called : resps[v] = RequestException
        got == {v \in Caps : resps[v].kind = "frame" /\ resps[v].rows # <<>>}
        all_data == [v \in got |-> resps[v].rows]
        out(file_, attempted_, failed_, w, r) ==
            [file |-> file_, start_time |-> start, attempted |-> attempted_,
             failed |-> failed_, wrote |-> w, raised |-> r]
    IN  IF start >= clock THEN {out(f, {}, {}, FALSE, FALSE)}
        ELSE IF uncaught THEN {out(f, called, errors, FALSE, TRUE)}
        ELSE IF got = {} THEN {out(f, called, errors, FALSE, FALSE)}
        ELSE {out(to_parquet(c), called, errors, TRUE, FALSE)
                : c \in Combine(existing_df, BundleFrame(all_data))}

\* The bundle files a run can find: none, an unreadable one, one with zero
\* rows, the first month with a value for every constituent, and the first
\* two months with a value of the second month for the first constituent
\* only.
BundleBaselines ==
    {Absent, Corrupt, to_parquet(<<>>),
     to_parquet(<<<<GridAt("monthly", 0), [v \in Caps |-> "a"]>>>>),
     to_parquet(<<<<GridAt("monthly", 0), [v \in Caps |-> "a"]>>,
                  <<GridAt("monthly", 1),
                    [v \in Caps |-> IF v = 1 THEN "a" ELSE Null]>>>>)}

InitBundle ==
    /\ driver = "monthly"
    /\ file \in BundleBaselines
    /\ before = file
    /\ now \in {GridAt("monthly", 1), Far}
    /\ op = "init"
    /\ force_full \in BOOLEAN
    /\ start_time = None
    /\ fetched \in [Caps -> CapResponses]
    /\ wrote = FALSE
    /\ raised = FALSE
    /\ upstream = NoUpstream
    /\ outputs = NoOutputs
    /\ pc = "running"
    /\ idx = 0
    /\ attempted = {}
    /\ failed = {}
    /\ NoEra5
    /\ NoRuns

\* main() of the driver at its call of download_capacities; an exception
\* the call raises ends main().
DownloadCapacities ==
    /\ pc = "running"
    /\ \E r \in download_capacities(file, force_full, fetched, now) :
         /\ file' = r.file
         /\ before' = file
         /\ start_time' = r.start_time
         /\ attempted' = r.attempted
         /\ failed' = r.failed
         /\ wrote' = r.wrote
         /\ raised' = r.raised
         /\ pc' = IF r.raised THEN "raised" ELSE "done"
    /\ op' = "update"
    /\ UNCHANGED <<driver, now, force_full, fetched, upstream, outputs, idx,
                   varsEra5, varsRuns>>

NextBundle == DownloadCapacities

SpecBundle == InitBundle /\ [][NextBundle]_vars

\* The exit status of the interpreter when main() has ended: 1 after an
\* uncaught exception, 0 otherwise (no driver calls sys.exit).
ExitStatus == IF pc = "raised" THEN 1 ELSE 0

\* The constituents whose fetch returned records.
Succeeded == {v \in Caps : fetched[v].kind = "frame" /\ fetched[v].rows # <<>>}

\* The constituents whose fetch ends in a transport error.
TransportFailed == {v \in Caps : fetched[v] \in {FetchRuntimeError, RequestException}}

\* The persisted bundle holds the record r of constituent v.
BundleHolds(v, r) ==
    /\ file.state = "ok"
    /\ \E i \in 1..Len(file.rows) :
          Ts(file.rows[i]) = Ts(r) /\ Val(file.rows[i])[v] = Val(r)

\* C11: when the fetch of one constituent of the bundle raises a transport
\* error (an exception of the HTTP request or a non-200 status) and the
\* others return data, the run ends with the fetched records of the
\* succeeding constituents persisted in the bundle and with the failing
\* constituent among those it handled as failed.
BundlePartialFailureKeepsOthers ==
    (op = "update" /\ start_time < now
        /\ Cardinality(TransportFailed) = 1 /\ Succeeded = Caps \ TransportFailed)
        => /\ \A v \in Succeeded : \A i \in 1..Len(fetched[v].rows) :
                 BundleHolds(v, fetched[v].rows[i])
           /\ TransportFailed \subseteq failed
           /\ ~raised

\* C12: a driver run exits with status 0 exactly when no declared variable
\* (constituents of a bundle included) failed to fetch, and the variables
\* that succeeded keep their persisted results.
ExitStatusTellsFailure ==
    (op = "update" /\ start_time < now)
        => /\ (ExitStatus = 0) <=> (TransportFailed = {})
           /\ \A v \in Succeeded : \A i \in 1..Len(fetched[v].rows) :
                 BundleHolds(v, fetched[v].rows[i])

(***************************************************************************)
(* A process that dies while it persists (SpecCrash)                       *)
(***************************************************************************)
\* The file to_parquet leaves when the process dies after it has opened the
\* output file for writing and before it has written the parquet footer:
\* pd.read_parquet raises on it.
Partial == [state |-> "partial", layout |-> "index", rows |-> <<>>]

\* The contents of the output location when the process dies in
\* combined_df.to_parquet(output_file), which writes to the output file
\* itself: the file is as it was (not opened yet), cut short, or complete.
KilledInToParquet(old, new) == {old, Partial, new}

\* An update of a SMARD variable that gets as far as to_parquet and is
\* killed there.
CrashInPersist ==
    /\ driver \in SmardDrivers
    /\ op # "update"
    /\ \E force \in BOOLEAN, resp \in Responses(driver) :
         \E r \in download_single_variable(file, driver, force, resp, now) :
            /\ r.wrote
            /\ file' \in KilledInToParquet(file, r.file)
            /\ before' = file
            /\ start_time' = r.start_time
            /\ fetched' = r.fetched
            /\ wrote' = TRUE
            /\ raised' = FALSE
            /\ force_full' = force
    /\ op' = "crash"
    /\ UNCHANGED <<driver, now, upstream, varsDriver, varsEra5, varsRuns>>

NextCrash == UpdateSmard \/ UpdateTTF \/ Tick \/ CrashInPersist

SpecCrash == Init /\ [][NextCrash]_vars

\* The complete merged contents the interrupted update was persisting.
MergedContents ==
    {to_parquet(c) : c \in Combine(LoadBaseline(before, force_full), fetched.rows)}

\* C13: if the process dies at any point of the persist step, the dataset
\* location afterwards holds the complete previous content or the complete
\* merged content, never a half-written file.
PersistIsAtomic ==
    op = "crash" => (file = before \/ file \in MergedContents)

(***************************************************************************)
(* Failures and unreadable baselines in one update (specification Spec)    *)
(***************************************************************************)
\* C14: when the fetch of a variable ends in a transport or protocol error,
\* the variable's persisted dataset is unchanged after the update and
\* nothing is written, with force_full and without (force mode does not
\* delete or truncate the old file before a fetch has succeeded).
FetchFailureLeavesFile ==
    (op = "update" /\ fetched.kind \in {"RuntimeError", "RequestException"})
        => (file = before /\ ~wrote /\ raised)

\* C14 happens: a forced update of a non-empty dataset whose fetch failed.
ForcedFetchFailedOnNonEmptyDataset ==
    /\ op = "update" /\ force_full
    /\ NonEmpty(before)
    /\ fetched = FetchRuntimeError
    /\ file = before

\* C15: when the persisted file exists but cannot be read, the update does
\* not fail on it: the baseline counts as absent, a warning is printed, the
\* fetch starts at the fixed origin date, and a fetch that returns records
\* replaces the file with exactly these records.
CorruptBaselineDegrades ==
    (op = "update" /\ ~force_full /\ before = Corrupt)
        => /\ ~LoadBaseline(before, force_full).present
           /\ LoadBaseline(before, force_full).warned
           /\ FetchedFromOrigin
           /\ raised => fetched \in Failures
           /\ (fetched.kind = "frame" /\ fetched.rows # <<>>)
                 => (wrote /\ file = to_parquet(fetched.rows))

\* C15 happens: an unreadable file was replaced by a fetched series.
CorruptFileReplaced ==
    /\ op = "update" /\ ~force_full
    /\ before = Corrupt
    /\ wrote
    /\ Len(file.rows) = MaxT
    /\ driver = "hourly"

(***************************************************************************)
(* No new data in a driver run (specification SpecDriver)                  *)
(***************************************************************************)
\* C16: when the fetch client signals "No data available after" or returns
\* an empty frame, the update of the variable ends normally: nothing is
\* raised, nothing is written, and the driver's loop stands at the next
\* variable, or has ended after the last one.
NoDataIsNotAnError ==
    (op = "update" /\ ReturnedNoNewData(fetched))
        => /\ ~raised /\ ~wrote
           /\ failed = {}
           /\ pc \in {"running", "done"}
           /\ pc = "running" => (idx = Cardinality(attempted) + 1 /\ idx \notin attempted)
           /\ pc = "done" => attempted = 1..NumVars

\* C16 happens: the second variable got the no-data signal and the loop
\* stands at the third.
NoDataSignalThenNextVariable ==
    /\ op = "update" /\ fetched = NoDataAfter
    /\ pc = "running"
    /\ attempted = {1, 2}
    /\ idx = 3

(***************************************************************************)
(* The fetch client against any upstream content (SpecFetch)               *)
(***************************************************************************)
\* What the upstream can hold: the observations of the first slots, in the
\* blocks its index lists (none, when it has nothing for the query).
Upstreams ==
    {[published |-> p, blocks |-> b, grid |-> "hourly"] :
        p \in SeqsUpTo(Values, MaxSlots), b \in 0..BlocksNeeded(MaxSlots)}

\* The lower bounds a caller passes for start_time: the origin date, the
\* slots, and times between two slots.
Sinces ==
    {DEFAULT_START_DATE}
        \cup {SlotTime(k) : k \in 0..MaxSlots}
        \cup {SlotTime(k) + 30 : k \in 0..(MaxSlots - 1)}

\* The answers of the HTTP layer: every request answered with status 200,
\* the index request answered with status 500 or ended by an exception of
\* requests.get, the request of the first block answered with status 500.
Https ==
    {HttpOk,
     [index |-> "500", bad |-> {}],
     [index |-> "exception", bad |-> {}],
     [index |-> "200", bad |-> {ToWire(SlotTime(0))}]}

InitFetch ==
    /\ driver = "hourly"
    /\ file = Absent
    /\ before = Absent
    /\ now = Far
    /\ op = "init"
    /\ force_full = FALSE
    /\ start_time \in Sinces
    /\ fetched = NoCall
    /\ wrote = FALSE
    /\ raised = FALSE
    /\ upstream \in {up \in Upstreams : up.blocks >= BlocksNeeded(Len(up.published))}
    /\ NoRun
    /\ NoEra5
    /\ NoRuns

\* One call download_smard_data(..., start_time=since).  op tells whether
\* every request was answered with status 200.
Fetch ==
    /\ op = "init"
    /\ \E http \in Https :
         /\ fetched' \in download_smard_data(upstream, start_time, http)
         /\ op' = IF http = HttpOk THEN "fetch" ELSE "fetch_http_error"
    /\ UNCHANGED <<driver, file, before, now, force_full, start_time, wrote,
                   raised, upstream, varsDriver, varsEra5, varsRuns>>

NextFetch == Fetch \/ IncrementalRun

SpecFetch == InitFetch /\ [][NextFetch]_vars

\* C17: when the upstream has nothing at all for the query (its index lists
\* no block), the fetch client returns an empty series and raises nothing,
\* and the update of the variable ends successfully with no new records.
EmptyUpstreamGivesEmptySeries ==
    /\ (op = "fetch" /\ upstream.blocks = 0) => fetched = Frame(<<>>)
    /\ (op = "update" /\ upstream.blocks = 0)
          => (fetched = Frame(<<>>) /\ ~raised /\ ~wrote)

\* C18: for every since and every upstream content, download_smard_data
\* returns every upstream observation whose timestamp is at or after since,
\* those in a block that starts before since included.
FetchReturnsAllSince ==
    op = "fetch"
        => \A o \in Published(upstream) :
              Ts(o) >= start_time
                 => (fetched.kind = "frame" /\ o \in RowsOf(fetched.rows))

\* C19: every observation download_smard_data(start_time=since) returns has
\* a timestamp at or after since (each block of the upstream holding only
\* observations at or after the block's own start).
FetchedNotBeforeSince ==
    op \in {"fetch", "fetch_http_error"}
        => \A i \in 1..Len(fetched.rows) : Ts(fetched.rows[i]) >= start_time

\* C19 happens: a fetch from the start of the second block, with
\* observations published before and after it, returned records.
FetchedFromSecondBlock ==
    /\ op = "fetch"
    /\ start_time = SlotTime(BlockLen)
    /\ Len(upstream.published) > BlockLen
    /\ fetched.kind = "frame"
    /\ fetched.rows # <<>>
    /\ Ts(fetched.rows[1]) = start_time

(***************************************************************************)
(* The checkpointed ERA5 download of one period (SpecEra5)                 *)
(***************************************************************************)
\* Number of variables and of days of the period of the model, and of runs
\* of the script.
MaxEraVars == 2
MaxDays == 2
MaxRuns == 3

EraVars == 1..MaxEraVars
EraDays == 1..MaxDays

\* A file of the download is absent, valid (written to its end from valid
\* data), partial (the process died inside to_netcdf) or invalid (written
\* to its end from what a read of a partial file gave).
NoDisk ==
    [day |-> [p \in EraVars \X EraDays |-> "absent"],
     var |-> [v \in EraVars |-> "absent"],
     out |-> "absent"]

\* The script at its start: "for period_name, (start, end) in PERIODS".
\* found is the state of the daily checkpoints at the start of the run,
\* downloaded the (variable, day) pairs the run has called download_day for.
StartOfRun(run, found) ==
    [pc |-> "out_check", v |-> 1, d |-> 1, downloaded |-> {}, found |-> found,
     runs |-> run]

\* xr.open_mfdataset(files) ... to_netcdf(target): what becomes of the
\* target.  The read of a partial file raises or yields data that are not
\* the downloaded ones, depending on the netCDF backend and on where the
\* file was cut.
MergeOutcomes(inputs) ==
    (IF "partial" \in inputs THEN {"raise"} ELSE {})
        \cup {IF inputs \subseteq {"valid"} THEN "valid" ELSE "invalid"}

InitEra5 ==
    /\ driver = "hourly"
    /\ file = Absent
    /\ before = Absent
    /\ now = Far
    /\ Idle
    /\ upstream = NoUpstream
    /\ NoRun
    /\ NoRuns
    /\ disk = NoDisk
    /\ script = StartOfRun(1, NoDisk.day)

\* "if out_file.exists(): with xr.open_dataset(out_file) ...": the period is
\* skipped when the final file has all variables; open_dataset of a partial
\* file raises, or gives a dataset without all variables (re-merge).
CheckOutFile ==
    /\ script.pc = "out_check"
    /\ script' \in
         CASE disk.out = "absent" -> {[script EXCEPT !.pc = "var_check"]}
           [] disk.out = "partial" -> {[script EXCEPT !.pc = "failed"],
                                       [script EXCEPT !.pc = "var_check"]}
           [] OTHER -> {[script EXCEPT !.pc = "done"]}
    /\ UNCHANGED <<varsUpdate, upstream, varsDriver, disk, varsRuns>>

\* The script after variable v: the next variable, or the final merge.
AfterVar(sc) ==
    IF sc.v = MaxEraVars THEN [sc EXCEPT !.pc = "merge_out"]
    ELSE [sc EXCEPT !.pc = "var_check", !.v = @ + 1, !.d = 1]

\* "if var_file.exists(): ... continue"
CheckVarFile ==
    /\ script.pc = "var_check"
    /\ script' = IF disk.var[script.v] # "absent" THEN AfterVar(script)
                 ELSE [script EXCEPT !.pc = "day_check", !.d = 1]
    /\ UNCHANGED <<varsUpdate, upstream, varsDriver, disk, varsRuns>>

\* The script after day d: the next day, or the merge of the days.
AfterDay(sc) ==
    IF sc.d = MaxDays THEN [sc EXCEPT !.pc = "merge_var"]
    ELSE [sc EXCEPT !.d = @ + 1]

\* One pass of "for i, ts in enumerate(timestamps)": the day is skipped if
\* day_file.exists(), and downloaded and saved otherwise.
DownloadDay ==
    /\ script.pc = "day_check"
    /\ LET p == <<script.v, script.d>>
       IN  IF disk.day[p] # "absent"
           THEN /\ script' = AfterDay(script)
                /\ disk' = disk
           ELSE /\ script' = AfterDay([script EXCEPT !.downloaded = @ \cup {p}])
                /\ disk' = [disk EXCEPT !.day[p] = "valid"]
    /\ UNCHANGED <<varsUpdate, upstream, varsDriver, varsRuns>>

\* "with xr.open_mfdataset(day_files, ...) as ds_var:
\* ds_var.to_netcdf(var_file)"
MergeDays ==
    /\ script.pc = "merge_var"
    /\ \E o \in MergeOutcomes({disk.day[<<script.v, d>>] : d \in EraDays}) :
         IF o = "raise"
         THEN /\ script' = [script EXCEPT !.pc = "failed"]
              /\ disk' = disk
         ELSE /\ script' = AfterVar(script)
              /\ disk' = [disk EXCEPT !.var[script.v] = o]
    /\ UNCHANGED <<varsUpdate, upstream, varsDriver, varsRuns>>

\* "with xr.open_mfdataset(var_files, ...) as ds_merged:
\* ds_merged.to_netcdf(out_file)"
MergeVars ==
    /\ script.pc = "merge_out"
    /\ \E o \in MergeOutcomes({disk.var[v] : v \in EraVars}) :
         IF o = "raise"
         THEN /\ script' = [script EXCEPT !.pc = "failed"]
              /\ disk' = disk
         ELSE /\ script' = [script EXCEPT !.pc = "done"]
              /\ disk' = [disk EXCEPT !.out = o]
    /\ UNCHANGED <<varsUpdate, upstream, varsDriver, varsRuns>>

\* The process is interrupted between two steps.
Interrupt ==
    /\ script.pc \in {"out_check", "var_check", "day_check", "merge_var", "merge_out"}
    /\ script' = [script EXCEPT !.pc = "killed"]
    /\ UNCHANGED <<varsUpdate, upstream, varsDriver, disk, varsRuns>>

\* The process is interrupted inside to_netcdf, which writes to the file's
\* own path: the file exists and is cut short.
InterruptInToNetcdf ==
    /\ \/ /\ script.pc = "day_check"
          /\ disk.day[<<script.v, script.d>>] = "absent"
          /\ disk' = [disk EXCEPT !.day[<<script.v, script.d>>] = "partial"]
          /\ script' = [script EXCEPT !.pc = "killed",
                                      !.downloaded = @ \cup {<<script.v, script.d>>}]
       \/ /\ script.pc = "merge_var"
          /\ "partial" \notin {disk.day[<<script.v, d>>] : d \in EraDays}
          /\ disk' = [disk EXCEPT !.var[script.v] = "partial"]
          /\ script' = [script EXCEPT !.pc = "killed"]
       \/ /\ script.pc = "merge_out"
          /\ "partial" \notin {disk.var[v] : v \in EraVars}
          /\ disk' = [disk EXCEPT !.out = "partial"]
          /\ script' = [script EXCEPT !.pc = "killed"]
    /\ UNCHANGED <<varsUpdate, upstream, varsDriver, varsRuns>>

\* The script is run again after an interruption or a failure.
Rerun ==
    /\ script.pc \in {"killed", "failed"}
    /\ script.runs < MaxRuns
    /\ script' = StartOfRun(script.runs + 1, disk.day)
    /\ UNCHANGED <<varsUpdate, upstream, varsDriver, disk, varsRuns>>

NextEra5 ==
    \/ CheckOutFile \/ CheckVarFile \/ DownloadDay \/ MergeDays \/ MergeVars
    \/ Interrupt \/ InterruptInToNetcdf \/ Rerun

SpecEra5 == InitEra5 /\ [][NextEra5]_vars

\* C20: a run of the daily download downloads only the (variable, day)
\* pairs whose checkpoint file was not on disk when it started, and a
\* re-run after an interruption ends with a final output that holds valid
\* data for every variable and every day of the period.
RerunCompletesFromCheckpoints ==
    /\ \A p \in script.downloaded : script.found[p] = "absent"
    /\ (script.runs > 1 /\ script.pc \in {"done", "failed"}) => disk.out = "valid"

(***************************************************************************)
(* Runs of one variable's update over the HTTP layer (SpecHttp)            *)
(***************************************************************************)
\* Number of runs of the update a behaviour makes.
MaxHttpRuns == 2

\* The blocks a fetch from start requests: those the index lists at or
\* after start.
Requested(up, start) ==
    {w \in {IndexJson(up)[j] : j \in 1..up.blocks} : w >= ToWire(start)}

\* The answers of the HTTP layer to the requests of one fetch: the index
\* request answered with status 200, with status 500 or ended by an
\* exception of requests.get, and any of the requested blocks answered with
\* a status other than 200.
HttpAnswers(up, start) ==
    {[index |-> "200", bad |-> b] : b \in SUBSET Requested(up, start)}
        \cup {[index |-> "500", bad |-> {}], [index |-> "exception", bad |-> {}]}

InitHttp ==
    /\ driver \in {"hourly", "forecasts"}
    /\ file \in Baselines(driver)
    /\ before = file
    /\ now = Far
    /\ Idle
    /\ upstream \in {[up EXCEPT !.grid = driver] :
                       up \in {u \in Upstreams :
                                  u.blocks >= BlocksNeeded(Len(u.published))}}
    /\ NoRun
    /\ NoEra5
    /\ NoRuns

\* One non-force run of the update of an hourly variable or of a
\* quarter-hourly forecast, download_single_variable with its call of
\* download_smard_data, the HTTP layer answering the run's requests in any
\* of the ways above.
UpdateOverHttp ==
    /\ Len(http_log) < MaxHttpRuns
    /\ LET start == StartTime(driver, get_last_timestamp(LoadBaseline(file, FALSE)))
       IN  \E h \in HttpAnswers(upstream, start) :
             /\ \E resp \in download_smard_data(upstream, start, h) :
                  \E r \in download_single_variable(file, driver, FALSE, resp, now) :
                     Record(r, FALSE)
             /\ http_log' = Append(http_log, h)
    /\ UNCHANGED <<driver, now, upstream, varsDriver, varsEra5, procs>>

NextHttp == UpdateOverHttp

SpecHttp == InitHttp /\ [][NextHttp]_vars

\* The answers of the HTTP layer to the last run.
LastHttp == http_log[Len(http_log)]

\* C21: if any HTTP request made during a fetch fails (the index request or
\* a single block request), the update of the variable is aborted and
\* nothing is persisted in that run.
FetchErrorAbortsUpdate ==
    (op = "update" /\ http_log # <<>> /\ LastHttp # HttpOk)
        => (raised /\ ~wrote /\ file = before)

\* C22: running a non-force update twice in succession with no change of
\* the upstream between the runs, every request answered, leaves after the
\* second run the persisted dataset the first run left, for every baseline
\* and every upstream content.
SecondRunChangesNothing ==
    [][(op = "update" /\ LastHttp = HttpOk /\ LastHttp' = HttpOk
            /\ upstream' = upstream)
          => file' = file]_vars

\* C22 happens: the second of two runs found the four published
\* observations the first had persisted and left them as they were.
SecondRunAfterFullFetch ==
    /\ op = "update"
    /\ http_log = <<HttpOk, HttpOk>>
    /\ Len(upstream.published) = MaxSlots
    /\ Len(file.rows) = MaxSlots
    /\ file = before

(***************************************************************************)
(* Growth of the persisted series (specification Spec)                     *)
(***************************************************************************)
\* The resumption point the next run of the driver derives from the file f.
Cursor(f) ==
    IF driver = "ttf" THEN ttf_start_date(get_existing_data(f))
    ELSE StartTime(driver, get_last_timestamp(get_existing_data(f)))

\* C23: after every non-force update of a readable dataset the persisted
\* timestamps are a superset of those before it, and the maximum persisted
\* timestamp and the resumption point derived from it have not decreased.
PersistedOnlyGrows ==
    (op = "update" /\ ~force_full /\ before.state = "ok")
        => /\ file.state = "ok"
           /\ TimestampsOf(before.rows) \subseteq TimestampsOf(file.rows)
           /\ before.rows # <<>> => MaxTs(file.rows) >= MaxTs(before.rows)
           /\ Cursor(file) >= Cursor(before)

\* C23 happens: a non-force update merged a fetched record into a non-empty
\* dataset and the series grew.
MergeGrewDataset ==
    /\ op = "update" /\ ~force_full /\ wrote
    /\ NonEmpty(before)
    /\ Len(file.rows) > Len(before.rows)
    /\ Cursor(file) > Cursor(before)

(***************************************************************************)
(* The resumption point without a baseline (SpecOrigin)                    *)
(***************************************************************************)
\* A run of the update of a SMARD variable, or of a capacity bundle.
InitOrigin ==
    \/ Init /\ driver \in SmardDrivers
    \/ InitBundle

NextOrigin ==
    \/ pc = "none" /\ UpdateSmard
    \/ DownloadCapacities

SpecOrigin == InitOrigin /\ [][NextOrigin]_vars

\* C24: whenever the baseline is absent, unreadable or has zero rows, or
\* force_full is set, the update of a SMARD variable or bundle calls the
\* fetch client with the origin date 2015-01-01T00:00 for its start.
EmptyBaselineResumesAtOrigin ==
    (op = "update" /\ (force_full \/ ~NonEmpty(before)))
        => /\ start_time = Minutes(2015, 1, 1, 0, 0)
           /\ pc = "none" => fetched # NoCall
           /\ pc # "none" => attempted # {}

\* C24 happens: the update of a bundle whose file has zero rows fetched
\* every constituent from the origin date.
EmptyBundleFetchedFromOrigin ==
    /\ op = "update" /\ ~force_full
    /\ pc = "done"
    /\ before = to_parquet(<<>>)
    /\ start_time = DEFAULT_START_DATE
    /\ attempted = Caps

(***************************************************************************)
(* Baselines with the timestamps in a column (SpecColumn)                  *)
(***************************************************************************)
\* The rows of a file another writer has left: any order of the
\* timestamps, repeated timestamps included.
ForeignRows(cfg) == SeqsUpTo(Grid(cfg) \X Values, MaxRows)

InitColumn ==
    /\ driver \in SmardDrivers
    /\ \E l \in {"index", "column"}, r \in ForeignRows(driver) :
          file = [state |-> "ok", layout |-> l, rows |-> r]
    /\ before = file
    /\ now = Far
    /\ Idle
    /\ upstream = NoUpstream
    /\ NoRun
    /\ NoEra5
    /\ NoRuns

NextColumn == UpdateSmard

SpecColumn == InitColumn /\ [][NextColumn]_vars

\* The same rows with the timestamps as the index.
TimeIndexed(f) == [f EXCEPT !.layout = "index"]

BundleSkipsEmptyConstituents ==
    (op = "update" /\ start_time < now /\ TransportFailed = {})
        => /\ start_time = IF force_full \/ ~NonEmpty(before)
                           THEN DEFAULT_START_DATE
                           ELSE FirstOfNextMonth(MaxTs(before.rows))
           /\ attempted = Caps
           /\ ~raised /\ failed = {}
           /\ Succeeded # {} => wrote
           /\ \A v \in Succeeded : \A i \in 1..Len(fetched[v].rows) :
                 BundleHolds(v, fetched[v].rows[i])

\* C26 happens: the first constituent signalled no data, the second
\* returned an empty frame, and the record of the third was merged into the
\* existing bundle.
BundleMergedWithoutEmptyOnes ==
    /\ op = "update" /\ ~force_full /\ wrote
    /\ NonEmpty(before)
    /\ fetched[1] = NoDataAfter
    /\ fetched[2] = Frame(<<>>)
    /\ Succeeded = {3}
    /\ BundleHolds(3, fetched[3].rows[1])
    /\ Len(file.rows) > Len(before.rows)

\* C30: a non-null value persisted in the bundle for a timestamp t and a
\* constituent c is never replaced by null: after a non-force update the
\* row at t still carries a value for c, also when the newly fetched table
\* has a row at t without one.
BundleMergeKeepsValues ==
    (op = "update" /\ ~force_full /\ before.state = "ok")
        => \A i \in 1..Len(before.rows), v \in Caps :
              Val(before.rows[i])[v] # Null
                 => \E k \in 1..Len(file.rows) :
                       /\ Ts(file.rows[k]) = Ts(before.rows[i])
                       /\ Val(file.rows[k])[v] # Null

(***************************************************************************)
(* The files one variable's update touches (specification SpecDriver)      *)
(***************************************************************************)
\* C27: the update of one variable of a driver leaves the persisted files
\* of all other variables the driver declares unchanged, whether it writes,
\* short-circuits, finds no new data or fails.
UpdateTouchesOwnFileOnly ==
    [][\A j \in 1..NumVars :
          j # idx => outputs'[variable_files[j]] = outputs[variable_files[j]]]_vars

\* C27 happens: the update of the second variable has written its file
\* while the files of the first and the third are absent as before.
SecondVariableWrittenAlone ==
    /\ op = "update" /\ wrote
    /\ attempted = {1, 2}
    /\ outputs[variable_files[2]] = to_parquet(fetched.rows)
    /\ outputs[variable_files[1]] = Absent
    /\ outputs[variable_files[3]] = Absent

(***************************************************************************)
(* Two runs that update the same dataset location (SpecOverlap)            *)
(***************************************************************************)
\* Number of runs in progress at the same time.
MaxProcs == 2

Procs == 1..MaxProcs

\* A run before its first step.  seen is the file as get_existing_data read
\* it, out the file the run persists, clash tells that another run had the
\* output file open for writing while this one had.
StartOfUpdate ==
    [pc |-> "start", seen |-> Absent, out |-> Absent, wrote |-> FALSE,
     clash |-> FALSE]

InitOverlap ==
    /\ driver = "hourly"
    /\ file \in DriverBaselines
    /\ before = file
    /\ now = Far
    /\ Idle
    /\ upstream = NoUpstream
    /\ NoRun
    /\ NoEra5
    /\ http_log = <<>>
    /\ procs = [p \in Procs |-> StartOfUpdate]

\* "existing_df = None if force_full else get_existing_data(output_file)":
\* the run reads the file as it is at that moment, a file another run is
\* writing included.
LoadExisting(p) ==
    /\ procs[p].pc = "start"
    /\ procs' = [procs EXCEPT ![p].pc = "loaded", ![p].seen = file]
    /\ UNCHANGED <<varsUpdate, upstream, varsDriver, varsEra5, http_log>>

\* The fetch and the merge of download_variable, up to the call of
\* to_parquet: the run ends without a write, or holds the merged frame.
FetchAndCombine(p) ==
    /\ procs[p].pc = "loaded"
    /\ \E resp \in DriverResponses :
         \E r \in download_single_variable(procs[p].seen, driver, FALSE, resp, now) :
            procs' = [procs EXCEPT ![p].pc = IF r.wrote THEN "persist" ELSE "done",
                                   ![p].out = r.file]
    /\ UNCHANGED <<varsUpdate, upstream, varsDriver, varsEra5, http_log>>

Writing == {q \in Procs : procs[q].pc = "writing"}

\* combined_df.to_parquet(output_file) opens the output file itself for
\* writing, which truncates it.
OpenOutput(p) ==
    /\ procs[p].pc = "persist"
    /\ file' = Partial
    /\ procs' = [q \in Procs |->
                    IF q = p
                    THEN [procs[q] EXCEPT !.pc = "writing", !.wrote = TRUE,
                                          !.clash = Writing # {}]
                    ELSE IF q \in Writing THEN [procs[q] EXCEPT !.clash = TRUE]
                    ELSE procs[q]]
    /\ UNCHANGED <<driver, before, now, op, force_full, start_time, fetched, wrote,
                   raised, upstream, varsDriver, varsEra5, http_log>>

\* What the file holds when a run has written its last byte and closes it.
\* Alone at the file, its frame.  When another run has written to the same
\* file through its own descriptor in the meantime, each byte is the one
\* written last: the frame of either run, or a mix that is no parquet file;
\* and a file the other run is still writing is not complete.
ClosedFile(p) ==
    IF ~procs[p].clash THEN {to_parquet(procs[p].out.rows)}
    ELSE IF Writing \ {p} # {} THEN {Partial}
    ELSE {to_parquet(procs[q].out.rows) : q \in {q \in Procs : procs[q].clash}}
            \cup {Partial}

\* to_parquet returns.
CloseOutput(p) ==
    /\ procs[p].pc = "writing"
    /\ file' \in ClosedFile(p)
    /\ procs' = [procs EXCEPT ![p].pc = "done"]
    /\ UNCHANGED <<driver, before, now, op, force_full, start_time, fetched, wrote,
                   raised, upstream, varsDriver, varsEra5, http_log>>

NextOverlap ==
    \E p \in Procs :
        \/ LoadExisting(p)
        \/ FetchAndCombine(p)
        \/ OpenOutput(p)
        \/ CloseOutput(p)

SpecOverlap == InitOverlap /\ [][NextOverlap]_vars

\* The runs that called to_parquet.
Writers == {p \in Procs : procs[p].wrote}

\* C28: when two runs update the same dataset location concurrently, with
\* any interleaving of their load, fetch and persist steps, the file left
\* after both have finished is the complete merged output of one of them
\* (the file they found, if neither wrote); never a mix of the two writes
\* or an unreadable file.
OverlappingRunsDoNotCorrupt ==
    (procs # <<>> /\ \A p \in Procs : procs[p].pc = "done")
        => IF Writers = {} THEN file = before
           ELSE file \in {to_parquet(procs[p].out.rows) : p \in Writers}

(***************************************************************************)
(* Runs of a bundle after a failed fetch (SpecRecover)                     *)
(***************************************************************************)
\* The answers of the HTTP layer to the index request of a constituent's
\* fetch, every block request answered with status 200.
IndexAnswers ==
    {HttpOk, [index |-> "500", bad |-> {}], [index |-> "exception", bad |-> {}]}

\* The bundle file with the months of the first block, a value for every
\* constituent in each.
FirstBlockBundle ==
    to_parquet([k \in 1..BlockLen |->
                  <<GridAt("monthly", k - 1), [v \in Caps |-> "a"]>>])

\* The upstream publishes the same monthly series for every constituent,
\* with observations after the first block.
InitRecover ==
    /\ driver = "monthly"
    /\ file = FirstBlockBundle
    /\ before = file
    /\ now = Far
    /\ op = "init"
    /\ force_full = FALSE
    /\ start_time = None
    /\ fetched = [v \in Caps |-> NoCall]
    /\ wrote = FALSE
    /\ raised = FALSE
    /\ upstream \in {[up EXCEPT !.grid = "monthly"] :
                       up \in {u \in Upstreams :
                                  /\ u.blocks = BlocksNeeded(Len(u.published))
                                  /\ Len(u.published) > BlockLen}}
    /\ outputs = NoOutputs
    /\ pc = "running"
    /\ idx = 0
    /\ attempted = {}
    /\ failed = {}
    /\ NoEra5
    /\ NoRuns

\* The runs download_capacities can make on the bundle file f, each
\* constituent fetched with download_smard_data from the upstream up and
\* the HTTP layer answering the fetch of constituent v with hs[v].
CapacityRuns(f, up, answers, clock) ==
    LET start == get_start_time(get_last_timestamp(LoadBaseline(f, FALSE)), "month")
        fetches(hs) ==
            {resps \in [Caps -> UNION {download_smard_data(up, start, hs[v])
                                         : v \in Caps}] :
                \A v \in Caps : resps[v] \in download_smard_data(up, start, hs[v])}
    IN  UNION {UNION {{[http |-> hs, fetched |-> resps, run |-> r]
                         : r \in download_capacities(f, FALSE, resps, clock)}
                      : resps \in fetches(hs)}
               : hs \in [Caps -> answers]}

\* One run of main() with its call of download_capacities.  Index requests
\* can fail in the first run; in every later run all requests are
\* answered.
DownloadCapacitiesOverHttp ==
    /\ pc = "running"
    /\ \E o \in CapacityRuns(file, upstream,
                              IF http_log = <<>> THEN IndexAnswers ELSE {HttpOk},
                              now) :
         /\ file' = o.run.file
         /\ before' = file
         /\ start_time' = o.run.start_time
         /\ fetched' = o.fetched
         /\ attempted' = o.run.attempted
         /\ failed' = o.run.failed
         /\ wrote' = o.run.wrote
         /\ raised' = o.run.raised
         /\ pc' = IF o.run.raised THEN "raised" ELSE "done"
         /\ http_log' = IF http_log = <<>> THEN <<o.http>> ELSE http_log
    /\ op' = "update"
    /\ UNCHANGED <<driver, now, force_full, upstream, outputs, idx, varsEra5, procs>>

\* The script is started again after main() has ended.
RunAgain ==
    /\ pc \in {"done", "raised"}
    /\ pc' = "running"
    /\ op' = "start"
    /\ UNCHANGED <<driver, file, before, now, force_full, start_time, fetched,
                   wrote, raised, upstream, outputs, idx, attempted, failed,
                   varsEra5, varsRuns>>

NextRecover == DownloadCapacitiesOverHttp \/ RunAgain

\* The script is started again and again, and every run that is started
\* makes its call of download_capacities.
SpecRecover ==
    /\ InitRecover /\ [][NextRecover]_vars
    /\ WF_vars(RunAgain)
    /\ []<><<DownloadCapacitiesOverHttp>>_vars

\* The fetch of some constituent failed in the first run.
FetchFailedInFirstRun ==
    /\ http_log # <<>>
    /\ \E v \in Caps : http_log[1][v] # HttpOk

\* The persisted bundle has a value for every constituent at every
\* timestamp the upstream has published an observation for.
BundleComplete ==
    /\ file.state = "ok"
    /\ \A v \in Caps : \A o \in Published(upstream) :
          \E k \in 1..Len(file.rows) :
             Ts(file.rows[k]) = Ts(o) /\ Val(file.rows[k])[v] # Null

\* C29: if the fetch of a constituent of a bundle fails in one run and all
\* fetches succeed in every later run, then after some later run the
\* persisted dataset holds every upstream record, those of the period the
\* failed run should have fetched included.
RecoversAfterFailedRun == FetchFailedInFirstRun ~> BundleComplete

=============================================================================
